---- MODULE Spec2Model ----
(***************************************************************************)
(* Model of SSC_to_Monday.py: the synchronisation of SecurityScorecard     *)
(* scores into a Monday.com board.  Strings the program transforms are     *)
(* sequences of one-character strings; Python's None is the empty tuple    *)
(* and a present value x is the one-element tuple <<x>>.                   *)
(***************************************************************************)
EXTENDS Integers, Sequences, FiniteSets, TLC

VARIABLES
    env,          \* which of SSC_API_KEY, SSC_PORTFOLIO_ID, MONDAY_API_KEY are set
    pc,           \* position of main
    groups,       \* main: groups returned by get_all_board_groups
    gi,           \* main: index of the group the for loop of line 249 is at
    cursor,       \* get_items_from_group: cursor
    prev_cursor,  \* get_items_from_group: prev_cursor
    group_items,  \* get_items_from_group: all_items (main: items)
    all_items,    \* main: all_items
    lastPage,     \* history: the most recent page response of the current call
    pageLog,      \* history: the first MaxLog page responses of the current call
    companies,    \* get_score_data: companies
    ci,           \* get_score_data: index of the company the loop of line 78 is at
    score_data,   \* get_score_data: score_data
    listing,      \* history: kind of the answer to the company-listing request
    listingRest,  \* history: the companies the provider lists on its further pages
    scoreLog,     \* history: the scores requests made, in order, and their outcomes
    lastReq,      \* history: kind of the most recent network request
    scores,       \* main: scores
    ri,           \* main: index of the item the loop of line 265 is at
    mutations,    \* history: the update mutations issued, in order
    reqKinds,     \* history: kinds of network requests issued so far
    nA, nB,       \* normalize_domain: two raw inputs
    rA, rB,       \* normalize_domain: their results
    rAA,          \* normalize_domain applied to rA
    npc           \* position of the normalize_domain harness

vars == <<env, pc, groups, gi, cursor, prev_cursor, group_items, all_items,
          lastPage, pageLog, companies, ci, score_data, listing, scores, ri,
          mutations, reqKinds, listingRest, scoreLog, lastReq, nA, nB, rA, rB, rAA, npc>>

mainVars == <<env, pc, groups, gi, cursor, prev_cursor, group_items, all_items,
              lastPage, pageLog, companies, ci, score_data, listing, scores, ri,
              mutations, reqKinds, listingRest, scoreLog, lastReq>>

normVars == <<nA, nB, rA, rB, rAA, npc>>

----------------------------------------------------------------------------
(* Bounds of the model *)

MaxGroups == 2
MaxPageItems == 1
MaxItems == 2
MaxLog == 3
MaxCompanies == 2
MaxPieces == 3

----------------------------------------------------------------------------
(* Python values *)

None == <<>>
Some(x) == <<x>>

BoundedSeq(S, n) == UNION {[1..k -> S] : k \in 0..n}

RECURSIVE Concat(_)
Concat(ss) == IF ss = <<>> THEN <<>> ELSE Head(ss) \o Concat(Tail(ss))

Whitespace == {" ", "\t", "\n", "\r"}

UpperChars == <<"A","B","C","D","E","F","G","H","I","J","K","L","M",
                "N","O","P","Q","R","S","T","U","V","W","X","Y","Z">>
LowerChars == <<"a","b","c","d","e","f","g","h","i","j","k","l","m",
                "n","o","p","q","r","s","t","u","v","w","x","y","z">>

LowerChar(c) ==
    IF \E i \in 1..Len(UpperChars) : UpperChars[i] = c
    THEN LowerChars[CHOOSE i \in 1..Len(UpperChars) : UpperChars[i] = c]
    ELSE c

UpperChar(c) ==
    IF \E i \in 1..Len(LowerChars) : LowerChars[i] = c
    THEN UpperChars[CHOOSE i \in 1..Len(LowerChars) : LowerChars[i] = c]
    ELSE c

\* str.lower()
Lower(s) == [i \in 1..Len(s) |-> LowerChar(s[i])]

\* str.upper()
Upper(s) == [i \in 1..Len(s) |-> UpperChar(s[i])]

\* str.lstrip(chars)
RECURSIVE LStrip(_, _)
LStrip(s, cs) ==
    IF s # <<>> /\ Head(s) \in cs THEN LStrip(Tail(s), cs) ELSE s

\* str.rstrip(chars), bugged: removes one trailing character at most
RStripOne(s, cs) ==
    IF s # <<>> /\ s[Len(s)] \in cs THEN SubSeq(s, 1, Len(s) - 1) ELSE s

\* str.rstrip(chars)
RECURSIVE RStrip(_, _)
RStrip(s, cs) ==
    IF s # <<>> /\ s[Len(s)] \in cs THEN RStrip(SubSeq(s, 1, Len(s) - 1), cs) ELSE s

\* str.strip(chars)
Strip(s, cs) == RStrip(LStrip(s, cs), cs)

\* str.startswith(prefix)
StartsWith(s, p) == Len(s) >= Len(p) /\ SubSeq(s, 1, Len(p)) = p

\* s[n:]
DropFirst(s, n) == SubSeq(s, n + 1, Len(s))

HTTP == <<"h","t","t","p",":","/","/">>
HTTPS == <<"h","t","t","p","s",":","/","/">>

\* truthiness of an optional string: neither None nor ""
Truthy(o) == o # None /\ o[1] # <<>>

normalize_domain(domain) ==
    IF ~Truthy(domain) THEN None
    ELSE LET d1 == Strip(Strip(Strip(domain[1], Whitespace), {"'"}), Whitespace)
             d2 == IF StartsWith(d1, HTTP) THEN DropFirst(d1, Len(HTTP))
                   ELSE IF StartsWith(d1, HTTPS) THEN DropFirst(d1, Len(HTTPS))
                   ELSE d1
             d3 == RStrip(d2, {"/"})
         IN  Some(Lower(d3))

----------------------------------------------------------------------------
(* Inputs of the normalize_domain harness *)

S_example == <<"e","x","a","m","p","l","e",".","c","o","m">>

Pieces == { HTTP, HTTPS, Upper(HTTPS),
            <<"a">>, <<"/">>, <<"/", "p">>, <<" ">>, <<"'">>, S_example }

NormInputs ==
    {None} \cup {Some(Concat(ps)) : ps \in BoundedSeq(Pieces, MaxPieces)}

Schemes == {<<>>, HTTP, HTTPS, Upper(HTTPS)}

CaseOf(s, how) ==
    CASE how = "upper" -> Upper(s)
      [] how = "title" -> IF s = <<>> THEN s ELSE <<UpperChar(s[1])>> \o Tail(s)
      [] OTHER -> s

\* d with its letter case changed, a scheme put in front and a '/' put behind
Variant(d, scheme, how, slash) ==
    scheme \o CaseOf(d, how) \o (IF slash THEN <<"/">> ELSE <<>>)

Variants(d) ==
    {Variant(d, sch, how, sl) :
        sch \in Schemes, how \in {"keep", "upper", "title"}, sl \in BOOLEAN}

----------------------------------------------------------------------------
(* Program constants *)

BOARD_ID == <<"7436409221">>
DOMAIN_COLUMN_ID == <<"short_text7__1">>
SCORE_COLUMN_ID == <<"text_mkqf6dzd">>
GRADE_COLUMN_ID == <<"text_mkqf1dky">>

----------------------------------------------------------------------------
(* What the two servers can answer *)

S_a == <<"a">>
S_b == <<"b">>

\* raw domain texts of portfolio companies
RawTexts == {None, Some(S_a), Some(<<"A", "/">>), Some(S_b)}

\* texts of the domain column of board items
ItemTexts == {None, Some(<<"A", "/">>)}

\* ids of board items; the empty one is what a malformed item carries
ItemIds == {<<"5","0","1">>, <<"5","0","2">>, <<>>}
ItemNames == {<<"n">>}
GroupIds == <<<<"g","1">>, <<"g","2">>, <<"g","3">>, <<"g","4">>>>

\* the group lists a board can have: 0 to MaxGroups groups of distinct ids
GroupLists == {SubSeq(GroupIds, 1, k) : k \in 0..MaxGroups}
Cursors == {None, Some(<<>>), Some(<<"A">>), Some(<<"B">>)}
ScoreValues == {None, Some(0), Some(72)}
GradeValues == {None, Some(<<>>), Some(<<"C">>)}

\* normalize_domain of the texts the two servers send, computed once
Normalized == [t \in RawTexts \cup ItemTexts |-> normalize_domain(t)]

\* the column_values of an item: the domain column that the query asks for
ColumnValues == {<<[id |-> DOMAIN_COLUMN_ID, text |-> t]>> : t \in ItemTexts}

\* an item without domain text is dropped whatever its id is: one id stands
\* for them all
RawItems ==
    {it \in [id : ItemIds, name : ItemNames, column_values : ColumnValues] :
        it.column_values[1].text = None => it.id = <<"5","0","1">>}

\* answers of MondayAPI.query to the items_page query: {} after a transport
\* failure, a document without data/boards/groups/items_page, without items,
\* without cursor, or a whole page
PageResponses ==
    [kind : {"empty", "bad_path", "no_items"}, cursor : {None}, items : {<<>>}]
    \cup [kind : {"no_cursor"}, cursor : {None}, items : BoundedSeq(RawItems, MaxPageItems)]
    \cup [kind : {"ok"}, cursor : Cursors, items : BoundedSeq(RawItems, MaxPageItems)]

\* answers to the groups query
GroupResponses ==
    [kind : {"empty", "bad_path"}, groups : {<<>>}]
    \cup [kind : {"ok"}, groups : GroupLists]

Companies == [domain : RawTexts, name : {<<"c">>}]

\* answers to GET /portfolios/{id}/companies: no answer at all, an error
\* status (whose body may still carry entries) or 200
ListingResponses ==
    [kind : {"exception"}, entries : {<<>>}]
    \cup [kind : {"http_error", "ok"}, entries : BoundedSeq(Companies, MaxCompanies)]

\* answers to GET /companies/{domain}/scores
ScoreResponses ==
    [kind : {"exception"}, status : {0}, score : {None}, grade : {None}]
    \cup [kind : {"http"}, status : {404}, score : {None}, grade : {None}]
    \cup [kind : {"http"}, status : {200}, score : ScoreValues, grade : GradeValues]

\* answers of MondayAPI.query to the mutation: data is absent, null, an object
\* without the mutation result, or an object with it
MutationResponses ==
    [errors : {FALSE}, data : {"absent", "noresult", "result"}]
    \cup [errors : {TRUE}, data : {"absent", "null", "noresult"}]

----------------------------------------------------------------------------
(* get_items_from_group *)

\* lines 159-164: the normalized text of the domain column, None without it
RECURSIVE DomainOf(_)
DomainOf(cols) ==
    IF cols = <<>> THEN None
    ELSE IF Head(cols).id = DOMAIN_COLUMN_ID THEN Normalized[Head(cols).text]
    ELSE DomainOf(Tail(cols))

\* lines 158-170: the items of a page that carry a domain
RECURSIVE ExtractItems(_)
ExtractItems(items) ==
    IF items = <<>> THEN <<>>
    ELSE LET item == Head(items)
             domain == DomainOf(item.column_values)
         IN  (IF Truthy(domain)
              THEN <<[id |-> item.id, name |-> item.name, domain |-> domain[1]]>>
              ELSE <<>>) \o ExtractItems(Tail(items))

\* lines 172-178 without the comparison with prev_cursor
LoopStopsNoRepeatCheck(cur, prev) == ~Truthy(cur)

\* lines 172-178: the loop is left
LoopStops(cur, prev) == ~Truthy(cur) \/ cur = prev

\* the page's items dropped when the loop is left on this page
CollectedUnlessLast(acc, kept, leaving) == IF leaving THEN acc ELSE acc \o kept

\* lines 158-170 run before lines 172-178: the items of a parsed page are
\* collected whether or not the loop is left on this page
Collected(acc, kept, leaving) == acc \o kept

\* line 151 read as group_data.get("cursor"): a page without cursor parses
ParsedWithoutCursor(resp) == resp.kind \in {"ok", "no_cursor"}

\* line 148: the try block succeeds
Parsed(resp) == resp.kind = "ok"

\* history: the cursor sent with a request, the kind of its answer, the cursor
\* answered and the items of the page that carry a domain
LogEntry(resp, sent, kept) ==
    [sent |-> sent, kind |-> resp.kind,
     got |-> IF Parsed(resp) THEN resp.cursor ELSE None,
     kept |-> kept]

\* line 253: the call
CallGetItems ==
    /\ pc = "loop_groups"
    /\ gi <= Len(groups)
    /\ cursor' = None
    /\ prev_cursor' = None
    /\ group_items' = <<>>
    /\ lastPage' = None
    /\ pageLog' = <<>>
    /\ pc' = "page"
    /\ UNCHANGED <<env, groups, gi, all_items, companies, ci, score_data, listing,
                   scores, ri, mutations, reqKinds, listingRest, scoreLog, lastReq>>
    /\ UNCHANGED normVars

\* lines 120-180 and 254: one iteration of the while loop, and the return, at
\* which the locals cursor and prev_cursor end
ItemsPage ==
    /\ pc = "page"
    /\ \E resp \in PageResponses :
         LET kept == ExtractItems(resp.items)
             stop == ~Parsed(resp) \/ LoopStops(resp.cursor, cursor)
             newItems == IF Parsed(resp) THEN Collected(group_items, kept, stop)
                         ELSE group_items
             entry == LogEntry(resp, cursor, kept)
         IN  /\ Len(all_items) + Len(group_items) + Len(kept) <= MaxItems
             /\ prev_cursor' = IF stop THEN None ELSE cursor
             /\ cursor' = IF stop THEN None ELSE resp.cursor
             /\ group_items' = newItems
             /\ lastPage' = Some(entry)
             /\ pageLog' = IF Len(pageLog) < MaxLog THEN Append(pageLog, entry)
                           ELSE pageLog
             /\ IF stop
                THEN /\ pc' = "loop_groups"
                     /\ gi' = gi + 1
                     /\ all_items' = all_items \o newItems
                ELSE /\ pc' = "page"
                     /\ UNCHANGED <<gi, all_items>>
    /\ reqKinds' = reqKinds \cup {"items"}
    /\ lastReq' = "items"
    /\ UNCHANGED <<env, groups, companies, ci, score_data, listing, scores, ri, mutations,
                   listingRest, scoreLog>>
    /\ UNCHANGED normVars

----------------------------------------------------------------------------
(* get_all_board_groups and the start of main *)

\* lines 196-201
ParseGroups(resp) == IF resp.kind = "ok" THEN resp.groups ELSE <<>>

\* line 233 without the test of SSC_PORTFOLIO_ID
ConfigMissingKeysOnly(e) == ~e.SSC_API_KEY \/ ~e.MONDAY_API_KEY

\* line 233
ConfigMissing(e) == ~e.SSC_API_KEY \/ ~e.MONDAY_API_KEY \/ ~e.SSC_PORTFOLIO_ID

\* line 241 never true
NoGroupsNever(gs) == FALSE

\* line 241: not groups
NoGroups(gs) == gs = <<>>

\* lines 233-237
MainStart ==
    /\ pc = "start"
    /\ pc' = IF ConfigMissing(env) THEN "done" ELSE "get_groups"
    /\ UNCHANGED <<env, groups, gi, cursor, prev_cursor, group_items, all_items,
                   lastPage, pageLog, companies, ci, score_data, listing, scores, ri,
                   mutations, reqKinds, listingRest, scoreLog, lastReq>>
    /\ UNCHANGED normVars

\* lines 240-248
GetGroups ==
    /\ pc = "get_groups"
    /\ \E resp \in GroupResponses :
         /\ groups' = ParseGroups(resp)
         /\ pc' = IF NoGroups(ParseGroups(resp)) THEN "done" ELSE "loop_groups"
    /\ gi' = 1
    /\ all_items' = <<>>
    /\ reqKinds' = reqKinds \cup {"groups"}
    /\ lastReq' = "groups"
    /\ UNCHANGED <<env, cursor, prev_cursor, group_items, lastPage, pageLog, companies,
                   ci, score_data, listing, scores, ri, mutations, listingRest, scoreLog>>
    /\ UNCHANGED normVars

----------------------------------------------------------------------------
(* get_score_data *)

EmptyMap == [d \in {} |-> None]

\* score_data.setdefault(domain, entry): the first entry of a key stays
MapPutIfAbsent(m, k, e) ==
    [d \in DOMAIN m \cup {k} |-> IF d \in DOMAIN m THEN m[d] ELSE e]

\* score_data[domain] = entry
MapPut(m, k, e) == [d \in DOMAIN m \cup {k} |-> IF d = k THEN e ELSE m[d]]

\* lines 68-73 without raise_for_status: only a transport failure is noticed
ListingFailedNoStatusCheck(resp) == resp.kind = "exception"

\* lines 68-73: requests.get raised, or raise_for_status did
ListingFailed(resp) == resp.kind \in {"exception", "http_error"}

\* line 97 without the test of grade
ValidScoreAnyGrade(score, grade) == score # None

\* line 97
ValidScore(score, grade) == score # None /\ Truthy(grade)

\* lines 87-108 with a failed request ending the fetch with nothing
AfterScoreFailureClears(m, domain, name, resp) ==
    IF resp.kind = "http" /\ resp.status = 200
    THEN IF ValidScore(resp.score, resp.grade)
         THEN MapPut(m, domain, [name |-> name, score |-> resp.score, grade |-> resp.grade])
         ELSE m
    ELSE EmptyMap

\* lines 87-108: score_data after the scores request of one company
AfterScore(m, domain, name, resp) ==
    IF resp.kind = "http" /\ resp.status = 200 /\ ValidScore(resp.score, resp.grade)
    THEN MapPut(m, domain, [name |-> name, score |-> resp.score, grade |-> resp.grade])
    ELSE m

\* the further pages the provider can hold behind the answer to the listing request
LaterPages(resp) ==
    IF resp.kind = "ok" THEN BoundedSeq(Companies, MaxCompanies - Len(resp.entries))
    ELSE {<<>>}

\* history: the domain asked for and what the scores request gave: it failed
\* (no answer or a status other than 200), it gave 200 with score or grade
\* missing, or it gave 200 with both
ScoreLogEntry(domain, name, resp) ==
    LET got == resp.kind = "http" /\ resp.status = 200
        full == got /\ resp.score # None /\ Truthy(resp.grade)
    IN  [domain |-> domain, name |-> name,
         outcome |-> IF ~got THEN "failed" ELSE IF full THEN "valid" ELSE "missing",
         score |-> IF full THEN resp.score ELSE None,
         grade |-> IF full THEN resp.grade ELSE None]

\* lines 256-260 and 62-76; items of line 253 is not read again and the
\* history of the board read ends
GetCompanies ==
    /\ pc = "loop_groups"
    /\ gi > Len(groups)
    /\ \E resp \in ListingResponses :
         /\ listing' = resp.kind
         /\ listingRest' \in LaterPages(resp)
         /\ IF ListingFailed(resp)
            THEN /\ scores' = EmptyMap
                 /\ pc' = "reconcile"
                 /\ UNCHANGED <<companies, ci, score_data>>
            ELSE /\ companies' = resp.entries
                 /\ ci' = 1
                 /\ score_data' = EmptyMap
                 /\ pc' = "score"
                 /\ UNCHANGED scores
    /\ ri' = 1
    /\ reqKinds' = reqKinds \cup {"listing"}
    /\ lastReq' = "listing"
    /\ scoreLog' = <<>>
    /\ group_items' = <<>>
    /\ lastPage' = None
    /\ pageLog' = <<>>
    /\ UNCHANGED <<env, groups, gi, cursor, prev_cursor, all_items, mutations>>
    /\ UNCHANGED normVars

\* lines 78-108: one iteration of the for loop
ScoreCompany ==
    /\ pc = "score"
    /\ ci <= Len(companies)
    /\ LET company == companies[ci]
           domain == Normalized[company.domain]
       IN  IF ~Truthy(domain)
           THEN UNCHANGED <<score_data, reqKinds, scoreLog, lastReq>>
           ELSE /\ \E resp \in ScoreResponses :
                     /\ score_data' = AfterScore(score_data, domain[1], company.name, resp)
                     /\ scoreLog' = Append(scoreLog,
                                           ScoreLogEntry(domain[1], company.name, resp))
                /\ reqKinds' = reqKinds \cup {"scores"}
                /\ lastReq' = "scores"
    /\ ci' = ci + 1
    /\ UNCHANGED <<env, pc, groups, gi, cursor, prev_cursor, group_items, all_items,
                   lastPage, pageLog, companies, listing, scores, ri, mutations,
                   listingRest>>
    /\ UNCHANGED normVars

\* lines 110 and 260: the return, at which the locals companies and score_data end
ScoreReturn ==
    /\ pc = "score"
    /\ ci > Len(companies)
    /\ scores' = score_data
    /\ companies' = <<>>
    /\ ci' = 1
    /\ score_data' = EmptyMap
    /\ pc' = "reconcile"
    /\ UNCHANGED <<env, groups, gi, cursor, prev_cursor, group_items, all_items,
                   lastPage, pageLog, listing, ri, mutations, reqKinds,
                   listingRest, scoreLog, lastReq>>
    /\ UNCHANGED normVars

----------------------------------------------------------------------------
(* update_monday_item and the reconciliation loop of main *)

Digits == <<"0","1","2","3","4","5","6","7","8","9">>

\* str(score) of a natural number
RECURSIVE StrOfNat(_)
StrOfNat(n) ==
    IF n < 10 THEN <<Digits[n + 1]>> ELSE StrOfNat(n \div 10) \o <<Digits[(n % 10) + 1]>>

\* lines 206-222 with str(score) sent for both columns
MutationScoreTwice(item_id, score, grade) ==
    [item_id |-> item_id, board_id |-> BOARD_ID,
     score |-> StrOfNat(score[1]), grade |-> StrOfNat(score[1])]

\* lines 206-222: the mutation sent
Mutation(item_id, score, grade) ==
    [item_id |-> item_id, board_id |-> BOARD_ID,
     score |-> StrOfNat(score[1]), grade |-> grade[1]]

\* lines 224-229: True, False, or the AttributeError of None.get when the
\* response carries "data": null
UpdateResult(resp) ==
    CASE resp.data = "result" -> "True"
      [] resp.data = "null" -> "AttributeError"
      [] OTHER -> "False"

\* lines 266-277: the item is not skipped
ShouldUpdate(item, sc) ==
    /\ item.domain \in DOMAIN sc
    /\ ~(sc[item.domain].score = None \/ ~Truthy(sc[item.domain].grade))

\* the scores fetched anew for every item: line 260 inside the loop of line 265
NextItemPcRefetch == "loop_groups"

\* line 265: after an item main is at the head of its for loop again
NextItemPc == "reconcile"

\* lines 265-279: one iteration of the for loop
ReconcileItem ==
    /\ pc = "reconcile"
    /\ ri <= Len(all_items)
    /\ LET item == all_items[ri]
       IN  IF ShouldUpdate(item, scores)
           THEN /\ \E resp \in MutationResponses :
                     LET data == scores[item.domain]
                         res == UpdateResult(resp)
                     IN  /\ mutations' = Append(mutations,
                                [idx |-> ri, result |-> res,
                                 sent |-> Mutation(item.id, data.score, data.grade)])
                         /\ IF res = "AttributeError"
                            THEN pc' = "crashed" /\ UNCHANGED ri
                            ELSE pc' = NextItemPc /\ ri' = ri + 1
                /\ reqKinds' = reqKinds \cup {"mutation"}
                /\ lastReq' = "mutation"
           ELSE /\ ri' = ri + 1
                /\ pc' = NextItemPc
                /\ UNCHANGED <<mutations, reqKinds, lastReq>>
    /\ UNCHANGED <<env, groups, gi, cursor, prev_cursor, group_items, all_items,
                   lastPage, pageLog, companies, ci, score_data, listing, scores,
                   listingRest, scoreLog>>
    /\ UNCHANGED normVars

\* the end of main
MainReturn ==
    /\ pc = "reconcile"
    /\ ri > Len(all_items)
    /\ pc' = "done"
    /\ UNCHANGED <<env, groups, gi, cursor, prev_cursor, group_items, all_items,
                   lastPage, pageLog, companies, ci, score_data, listing, scores, ri,
                   mutations, reqKinds, listingRest, scoreLog, lastReq>>
    /\ UNCHANGED normVars

----------------------------------------------------------------------------
(* The run of main *)

MainIdle ==
    /\ groups = <<>>
    /\ gi = 1
    /\ cursor = None
    /\ prev_cursor = None
    /\ group_items = <<>>
    /\ all_items = <<>>
    /\ lastPage = None
    /\ pageLog = <<>>
    /\ companies = <<>>
    /\ ci = 1
    /\ score_data = EmptyMap
    /\ listing = "none"
    /\ scores = EmptyMap
    /\ ri = 1
    /\ mutations = <<>>
    /\ reqKinds = {}
    /\ listingRest = <<>>
    /\ scoreLog = <<>>
    /\ lastReq = "none"

NormIdleResults ==
    /\ nB = None
    /\ rA = None
    /\ rB = None
    /\ rAA = None

NormIdle ==
    /\ nA = None
    /\ NormIdleResults

Init ==
    /\ env \in [SSC_API_KEY : BOOLEAN, SSC_PORTFOLIO_ID : BOOLEAN, MONDAY_API_KEY : BOOLEAN]
    /\ pc = "start"
    /\ MainIdle
    /\ NormIdle
    /\ npc = "off"

Next ==
    \/ MainStart
    \/ GetGroups
    \/ CallGetItems
    \/ ItemsPage
    \/ GetCompanies
    \/ ScoreCompany
    \/ ScoreReturn
    \/ ReconcileItem
    \/ MainReturn

Spec == Init /\ [][Next]_vars

----------------------------------------------------------------------------
(* The start of main and its board read alone: lines 232-254 *)

StartNext == MainStart \/ GetGroups \/ CallGetItems \/ ItemsPage

SpecStart == Init /\ [][StartNext]_vars

----------------------------------------------------------------------------
(* The board read of main alone: lines 249-254, from the state main is in when
   get_all_board_groups has returned groups *)

PagingInit ==
    /\ env = [SSC_API_KEY |-> TRUE, SSC_PORTFOLIO_ID |-> TRUE, MONDAY_API_KEY |-> TRUE]
    /\ pc = "loop_groups"
    /\ groups \in GroupLists \ {<<>>}
    /\ gi = 1
    /\ cursor = None
    /\ prev_cursor = None
    /\ group_items = <<>>
    /\ all_items = <<>>
    /\ lastPage = None
    /\ pageLog = <<>>
    /\ companies = <<>>
    /\ ci = 1
    /\ score_data = EmptyMap
    /\ listing = "none"
    /\ scores = EmptyMap
    /\ ri = 1
    /\ mutations = <<>>
    /\ reqKinds = {"groups"}
    /\ listingRest = <<>>
    /\ scoreLog = <<>>
    /\ lastReq = "groups"
    /\ NormIdle
    /\ npc = "off"

PagingNext == CallGetItems \/ ItemsPage

\* every page request is answered and main goes on: a step that can be taken is taken
SpecPaging == PagingInit /\ [][PagingNext]_vars /\ WF_vars(PagingNext)

----------------------------------------------------------------------------
(* The rest of main alone: lines 256-279, from the states main is in when the
   board read of one group has returned its items, one item a page *)

\* the items get_items_from_group can collect
KeptItems ==
    {[id |-> i, name |-> n, domain |-> Normalized[t][1]] :
        i \in ItemIds, n \in ItemNames, t \in {u \in ItemTexts : Truthy(Normalized[u])}}

\* the cursor answered with the i-th of n pages
PageCursor(i, n) ==
    IF i >= n THEN None ELSE IF i % 2 = 1 THEN Some(<<"A">>) ELSE Some(<<"B">>)

\* history of the page requests that collected items, one item a page
PagesOf(items) ==
    IF items = <<>>
    THEN <<[sent |-> None, kind |-> "ok", got |-> None, kept |-> <<>>]>>
    ELSE [i \in 1..Len(items) |->
            [sent |-> IF i = 1 THEN None ELSE PageCursor(i - 1, Len(items)),
             kind |-> "ok",
             got |-> PageCursor(i, Len(items)),
             kept |-> <<items[i]>>]]

AfterReadInit ==
    /\ env = [SSC_API_KEY |-> TRUE, SSC_PORTFOLIO_ID |-> TRUE, MONDAY_API_KEY |-> TRUE]
    /\ pc = "loop_groups"
    /\ groups = SubSeq(GroupIds, 1, 1)
    /\ gi = 2
    /\ cursor = None
    /\ prev_cursor = None
    /\ all_items \in BoundedSeq(KeptItems, MaxItems)
    /\ group_items = all_items
    /\ lastPage = Some(PagesOf(all_items)[Len(PagesOf(all_items))])
    /\ pageLog = IF Len(PagesOf(all_items)) <= MaxLog THEN PagesOf(all_items)
                 ELSE SubSeq(PagesOf(all_items), 1, MaxLog)
    /\ companies = <<>>
    /\ ci = 1
    /\ score_data = EmptyMap
    /\ listing = "none"
    /\ scores = EmptyMap
    /\ ri = 1
    /\ mutations = <<>>
    /\ reqKinds = {"groups", "items"}
    /\ listingRest = <<>>
    /\ scoreLog = <<>>
    /\ lastReq = "items"
    /\ NormIdle
    /\ npc = "off"

AfterReadNext ==
    \/ GetCompanies
    \/ ScoreCompany
    \/ ScoreReturn
    \/ ReconcileItem
    \/ MainReturn

SpecAfterRead == AfterReadInit /\ [][AfterReadNext]_vars

----------------------------------------------------------------------------
(* normalize_domain applied to bounded inputs *)

NormInit ==
    /\ env = [SSC_API_KEY |-> FALSE, SSC_PORTFOLIO_ID |-> FALSE, MONDAY_API_KEY |-> FALSE]
    /\ pc = "off"
    /\ MainIdle
    /\ nA \in NormInputs
    /\ NormIdleResults
    /\ npc = "raw"

\* normalize_domain(nA)
NormOnce ==
    /\ npc = "raw"
    /\ rA' = normalize_domain(nA)
    /\ npc' = "once"
    /\ UNCHANGED <<nA, nB, rB, rAA>>
    /\ UNCHANGED mainVars

\* normalize_domain(normalize_domain(nA))
NormTwice ==
    /\ npc = "once"
    /\ rAA' = normalize_domain(rA)
    /\ npc' = "twice"
    /\ UNCHANGED <<nA, nB, rA, rB>>
    /\ UNCHANGED mainVars

\* normalize_domain(nA) and normalize_domain(nB) for a variant nB of nA
NormBoth ==
    /\ npc = "raw"
    /\ nA # None
    /\ \E v \in Variants(nA[1]) :
         /\ nB' = Some(v)
         /\ rB' = normalize_domain(Some(v))
    /\ rA' = normalize_domain(nA)
    /\ npc' = "both"
    /\ UNCHANGED <<nA, rAA>>
    /\ UNCHANGED mainVars

NormNext == NormOnce \/ NormTwice \/ NormBoth

SpecNorm == NormInit /\ [][NormNext]_vars

----------------------------------------------------------------------------
(* Properties of get_items_from_group *)

CursorA == Some(<<"A">>)
CursorB == Some(<<"B">>)

\* the last page answered with a null or missing cursor, or with the cursor sent
LastPageEnds ==
    /\ lastPage # None
    /\ lastPage[1].kind \in {"ok", "no_cursor"}
    /\ (lastPage[1].got = None \/ lastPage[1].got = lastPage[1].sent)

\* C1: after a page response whose cursor is null or missing, or equals the
\* cursor sent with that request, get_items_from_group has returned: main is
\* back at its loop over the groups and no further page of the group is asked for.
C1_StopsAfterEndOrRepeat == LastPageEnds => pc = "loop_groups"

\* C1 witness: a call has returned on a page that answered the cursor it was sent
C1_Witness ==
    /\ pc = "loop_groups"
    /\ lastPage # None
    /\ lastPage[1].kind = "ok"
    /\ Truthy(lastPage[1].got)
    /\ lastPage[1].got = lastPage[1].sent

\* the first three pages of the call answered the cursors A, B, B
CursorsABB ==
    /\ Len(pageLog) >= 3
    /\ \A i \in 1..3 : pageLog[i].kind = "ok"
    /\ pageLog[1].got = CursorA
    /\ pageLog[2].got = CursorB
    /\ pageLog[3].got = CursorB

\* C2 as claimed: after the cursors A, B, B the call returns the domain-bearing
\* items of the first two pages and none of the third page.
C2_Original ==
    (pc = "loop_groups" /\ CursorsABB) =>
        group_items = pageLog[1].kept \o pageLog[2].kept

\* C2 as amended: after the cursors A, B, B the call has returned without a
\* fourth request, and it returns the domain-bearing items of all three pages,
\* those of the page that answered the repeated B included.
C2_ReturnsAllThreePages ==
    CursorsABB =>
        /\ pc = "loop_groups"
        /\ Len(pageLog) = 3
        /\ group_items = pageLog[1].kept \o pageLog[2].kept \o pageLog[3].kept

\* C2 witness: the call returned after A, B, B and its third page carried an item
C2_Witness ==
    /\ pc = "loop_groups"
    /\ CursorsABB
    /\ pageLog[3].kept # <<>>
    /\ group_items # <<>>

\* C3: a call of get_items_from_group that is paging eventually returns.
C3_PagingTerminates == (pc = "page") ~> (pc # "page")

----------------------------------------------------------------------------
(* Properties of normalize_domain *)

\* a string of letters, digits and dots only, as a domain is
BareDomain(o) ==
    /\ Truthy(o)
    /\ \A i \in 1..Len(o[1]) : o[1][i] \notin {"/", ":", "'"} \cup Whitespace

\* C4: a domain d and d with its letter case changed, a http:// or https://
\* scheme of any letter case put in front and a '/' put behind normalize to the
\* same key.
C4_CaseSchemeSlashInsensitive ==
    (npc = "both" /\ BareDomain(nA)) => rB = rA

\* C5: normalize_domain(normalize_domain(x)) = normalize_domain(x) whenever
\* normalize_domain(x) is not absent, that is neither None nor the empty string.
C5_Idempotent == (npc = "twice" /\ Truthy(rA)) => rAA = rA

----------------------------------------------------------------------------
(* Properties of main *)

\* the run of main is over: it returned, or an exception ended it
Over == pc \in {"done", "crashed"}

\* an update mutation was issued for the i-th fetched item
Issued(i) == \E k \in 1..Len(mutations) : mutations[k].idx = i

\* the item's normalized domain is a key of the score map and the entry has a
\* score and a non-empty grade
Eligible(item) ==
    /\ item.domain \in DOMAIN scores
    /\ scores[item.domain].score # None
    /\ Truthy(scores[item.domain].grade)

\* C7: when the run is over, an update mutation was issued for a fetched item
\* if and only if the item is eligible.
C7_UpdateIffEligible ==
    (Over /\ listing # "none") =>
        \A i \in 1..Len(all_items) : Issued(i) <=> Eligible(all_items[i])

\* C8: no item id is the target of two update mutations.
C8_AtMostOneUpdatePerItem ==
    \A j, k \in 1..Len(mutations) :
        j # k => mutations[j].sent.item_id # mutations[k].sent.item_id

\* C9: once the company-listing request has failed, the score map main gets is
\* empty and no update mutation is ever issued.
C9_NoWriteAfterListingFailure ==
    listing \in {"exception", "http_error"} =>
        /\ pc \in {"reconcile", "done"}
        /\ scores = EmptyMap
        /\ mutations = <<>>
        /\ "mutation" \notin reqKinds
        /\ "scores" \notin reqKinds

\* C9 witness: a run with fetched items ended after an error status of the listing
C9_Witness ==
    /\ listing = "http_error"
    /\ pc = "done"
    /\ all_items # <<>>

\* C10: every update answers True or False to main, and when the run is over
\* every eligible item has had its update attempted, whatever the earlier
\* updates answered.
C10_WriteFailureIsolated ==
    /\ \A k \in 1..Len(mutations) : mutations[k].result \in {"True", "False"}
    /\ (Over /\ listing # "none") =>
           \A i \in 1..Len(all_items) : Eligible(all_items[i]) => Issued(i)

----------------------------------------------------------------------------
(* Properties of get_score_data *)

\* get_score_data has made its last request and is about to return score_data
ScoreDone == pc = "score" /\ ci > Len(companies)

\* main has the map get_score_data returned after an answered listing
ScoreReturned == pc \in {"reconcile", "done", "crashed"} /\ listing = "ok"

\* the keys of the companies of a listing that have one, in the listing's order
ListedDomains(cs) ==
    LET ds == SelectSeq([i \in 1..Len(cs) |-> Normalized[cs[i].domain]], Truthy)
    IN  [i \in 1..Len(ds) |-> ds[i][1]]

\* the domains whose scores were requested, in the order of the requests
RequestedDomains == [k \in 1..Len(scoreLog) |-> scoreLog[k].domain]

\* C11: when the provider's listing has a non-empty first page and non-empty
\* further pages, get_score_data has, when it returns, fetched the companies of
\* every page in turn: its scores requests are those of the companies of the
\* first page followed by those of the further pages.
C11_AllPagesFetched ==
    (ScoreDone /\ companies # <<>> /\ listingRest # <<>>) =>
        RequestedDomains = ListedDomains(companies \o listingRest)

\* the entry has a score and a non-empty grade
ValidEntry(e) == e.score # None /\ e.grade # None /\ e.grade[1] # <<>>

\* the key is not empty and is normalize_domain of the non-empty domain of a
\* listed company
KeyOfListed(d) ==
    /\ d # <<>>
    /\ \E i \in 1..Len(companies) :
          /\ companies[i].domain # None
          /\ companies[i].domain[1] # <<>>
          /\ normalize_domain(companies[i].domain) = Some(d)

\* C12: every entry of the map get_score_data builds and returns has a
\* non-empty key that is normalize_domain of a listed company's non-empty
\* domain, a score that is not null and a grade that is not empty.
C12_OnlyValidEntries ==
    /\ \A d \in DOMAIN score_data : KeyOfListed(d) /\ ValidEntry(score_data[d])
    /\ \A d \in DOMAIN scores : d # <<>> /\ ValidEntry(scores[d])

\* C12 witness: the returned map has an entry, and a company of the listing
\* answered 200 with its score or grade missing
C12_Witness ==
    /\ ScoreReturned
    /\ scores # EmptyMap
    /\ \E k \in 1..Len(scoreLog) : scoreLog[k].outcome = "missing"

\* C13: in the returned map, every company whose scores request answered 200
\* with a score and a non-empty grade is present, whatever the other requests
\* did, and a key is present only through such a request.
C13_FailureExcludesOnlyThatCompany ==
    ScoreReturned =>
        /\ \A k \in 1..Len(scoreLog) :
              scoreLog[k].outcome = "valid" => scoreLog[k].domain \in DOMAIN scores
        /\ \A d \in DOMAIN scores :
              \E k \in 1..Len(scoreLog) :
                  scoreLog[k].domain = d /\ scoreLog[k].outcome = "valid"

\* C13 witness: a company was fetched with success before a company whose
\* request failed, and only the first is in the returned map
C13_Witness ==
    /\ ScoreReturned
    /\ Len(scoreLog) = 2
    /\ scoreLog[1].outcome = "valid"
    /\ scoreLog[2].outcome = "failed"
    /\ scoreLog[1].domain # scoreLog[2].domain
    /\ DOMAIN scores = {scoreLog[1].domain}

\* the last scores request made for the domain
LastFetch(d) ==
    LET k == CHOOSE j \in 1..Len(scoreLog) :
                 /\ scoreLog[j].domain = d
                 /\ \A i \in (j + 1)..Len(scoreLog) : scoreLog[i].domain # d
    IN  scoreLog[k]

\* the last scores request made for the domain that gave a score and a grade
LastValidFetch(d) ==
    LET k == CHOOSE j \in 1..Len(scoreLog) :
                 /\ scoreLog[j].domain = d
                 /\ scoreLog[j].outcome = "valid"
                 /\ \A i \in (j + 1)..Len(scoreLog) :
                       ~(scoreLog[i].domain = d /\ scoreLog[i].outcome = "valid")
    IN  scoreLog[k]

\* the domain was fetched for two listed companies or more
FetchedTwice(d) ==
    \E j, k \in 1..Len(scoreLog) :
        j # k /\ scoreLog[j].domain = d /\ scoreLog[k].domain = d

\* C19 as claimed: a key fetched for two companies holds the result of the later
\* fetch, and is not in the map when the later fetch failed or lacked a score or
\* a grade.
C19_Original ==
    ScoreReturned =>
        \A k \in 1..Len(scoreLog) :
            LET d == scoreLog[k].domain
            IN  FetchedTwice(d) =>
                    IF LastFetch(d).outcome = "valid"
                    THEN /\ d \in DOMAIN scores
                         /\ scores[d].score = LastFetch(d).score
                         /\ scores[d].grade = LastFetch(d).grade
                    ELSE d \notin DOMAIN scores

\* C19 as amended: a key holds the result of the latest fetch that answered 200
\* with a score and a non-empty grade; a later fetch of the same key that
\* failed or lacked one of them leaves that entry in place.
C19_LastValidFetchWins ==
    ScoreReturned =>
        \A k \in 1..Len(scoreLog) :
            LET d == scoreLog[k].domain
            IN  scoreLog[k].outcome = "valid" =>
                    /\ d \in DOMAIN scores
                    /\ scores[d] = [name |-> LastValidFetch(d).name,
                                    score |-> LastValidFetch(d).score,
                                    grade |-> LastValidFetch(d).grade]

\* C19 witness: two companies of one key were fetched with different scores and
\* the map holds the score of the second
C19_Witness ==
    /\ ScoreReturned
    /\ Len(scoreLog) = 2
    /\ scoreLog[1].domain = scoreLog[2].domain
    /\ scoreLog[1].outcome = "valid"
    /\ scoreLog[2].outcome = "valid"
    /\ scoreLog[1].score # scoreLog[2].score
    /\ scores[scoreLog[2].domain].score = scoreLog[2].score

----------------------------------------------------------------------------
(* Properties of the reconciliation and of the order of the requests *)

\* the identifier is empty or made of white space only
BlankId(id) == \A i \in 1..Len(id) : id[i] \in Whitespace

\* C14: no update mutation is issued for an item whose identifier is blank.
C14_NoUpdateForBlankId ==
    \A k \in 1..Len(mutations) : ~BlankId(mutations[k].sent.item_id)

\* the decimal text of the scores the provider answers
ScoreText(n) == CASE n = 0 -> <<"0">> [] n = 72 -> <<"7", "2">> [] OTHER -> <<>>

\* the score map is {a: (72, C)} and the only fetched item is (501, a)
OneItemOneScore ==
    /\ Len(all_items) = 1
    /\ all_items[1].id = <<"5","0","1">>
    /\ all_items[1].domain = S_a
    /\ DOMAIN scores = {S_a}
    /\ scores[S_a].score = Some(72)
    /\ scores[S_a].grade = Some(<<"C">>)

\* C15: every update mutation targets the id of the fetched item it was issued
\* for and carries the decimal text of the score and the grade as it is of the
\* map entry of that item's key; with the map {a: (72, C)} and the single item
\* (501, a) the run issues exactly the mutation (501, "72", "C").
C15_UpdateCarriesEntry ==
    /\ \A k \in 1..Len(mutations) :
          LET item == all_items[mutations[k].idx]
              sent == mutations[k].sent
          IN  /\ item.domain \in DOMAIN scores
              /\ sent.item_id = item.id
              /\ sent.score = ScoreText(scores[item.domain].score[1])
              /\ sent.grade = scores[item.domain].grade[1]
    /\ (Over /\ OneItemOneScore) =>
          /\ Len(mutations) = 1
          /\ mutations[1].sent = [item_id |-> <<"5","0","1">>, board_id |-> BOARD_ID,
                                  score |-> <<"7", "2">>, grade |-> <<"C">>]

\* C15 witness: the run with the map {a: (72, C)} and the item (501, a) is over
C15_Witness == Over /\ OneItemOneScore /\ Len(mutations) = 1

\* C16: with one of the three settings missing, main makes no request at all
\* and stops.
C16_NoRequestWithoutConfig ==
    (~env.SSC_API_KEY \/ ~env.SSC_PORTFOLIO_ID \/ ~env.MONDAY_API_KEY) =>
        /\ pc \in {"start", "done"}
        /\ reqKinds = {}
        /\ lastReq = "none"
        /\ mutations = <<>>

\* C16 witness: main has returned with the portfolio identifier alone missing
C16_Witness ==
    /\ pc = "done"
    /\ env.SSC_API_KEY
    /\ env.MONDAY_API_KEY
    /\ ~env.SSC_PORTFOLIO_ID

RECURSIVE KeptUpTo(_)
KeptUpTo(n) == IF n = 0 THEN <<>> ELSE KeptUpTo(n - 1) \o pageLog[n].kept

\* the last page request of the call failed or its answer was malformed, and
\* the history holds every page of the call
PageAnomaly ==
    /\ lastPage # None
    /\ lastPage[1].kind # "ok"
    /\ Len(pageLog) < MaxLog
    /\ pageLog[Len(pageLog)] = lastPage[1]

\* C18: after a failed or malformed page the call has returned to the loop of
\* main over the groups, with exactly the items of the pages before it.
C18_PageAnomalyEndsGroupOnly ==
    PageAnomaly =>
        /\ pc = "loop_groups"
        /\ group_items = KeptUpTo(Len(pageLog) - 1)
        /\ Len(all_items) >= Len(group_items)
        /\ SubSeq(all_items, Len(all_items) - Len(group_items) + 1, Len(all_items))
              = group_items

\* C18 witness: the second page of a group was malformed though it carried an
\* item, the first page had given an item, and a group is still to be read
C18_Witness ==
    /\ PageAnomaly
    /\ Len(pageLog) = 2
    /\ pageLog[1].kept # <<>>
    /\ pageLog[2].kept # <<>>
    /\ gi <= Len(groups)

\* C20: when the groups query gave no group, main has stopped and the groups
\* query is the only request of the run.
C20_NoGroupsStopsMain ==
    ("groups" \in reqKinds /\ groups = <<>>) =>
        /\ pc = "done"
        /\ reqKinds = {"groups"}
        /\ lastReq = "groups"
        /\ mutations = <<>>

\* C20 witness: main has returned after a groups query that gave no group
C20_Witness == pc = "done" /\ "groups" \in reqKinds /\ groups = <<>>

====
